---- MODULE Spec2Model ----
(***************************************************************************)
(* The two nodes of clipseg.py, CLIPSeg and CombineMasks, as a state       *)
(* machine.  One invocation of a node's FUNCTION is a run of the program   *)
(* counter pc through the statements of segment_image / combine_masks; an  *)
(* exception ends the invocation in pc = "raised" with exc naming it.      *)
(*                                                                         *)
(* Floating point values in [0, 1] are fixed point numbers in thousandths  *)
(* (Scale stands for 1.0).  A tensor is a sequence of rows.  An image is   *)
(* its shape and the value that fills it; a colorized / resized array is   *)
(* its shape.                                                              *)
(***************************************************************************)
EXTENDS Integers, Sequences, FiniteSets, TLC

\* ------------------------------------------------------------------ bounds
MaxDim == 3
MaxBatch == 2

\* ------------------------------------------------------- program constants
ThresholdStep == 50
Scale == 20 * ThresholdStep
BlurMax == 150
DilationMax == 10
DefaultBlur == 70
DefaultThreshold == 400
DefaultDilation == 4

NaN == 0 - 1
Unset == 0 - 2
None == <<>>

\* ------------------------------------------------------------ input sets
\* IMAGE tensors of at least 2 x 2 pixels: the host's batches [B, H, W, 3] and
\* the [3, H, W] layout that to_pil_image reads.
HostShapes == { <<b, h, w, 3>> : b \in 1..MaxBatch, h \in 2..MaxDim, w \in 2..MaxDim }
PlanarShapes == { <<3, h, w>> : h \in 2..MaxDim, w \in 2..MaxDim }
ImageFills == {500}
HostImages == [shape : HostShapes, fill : ImageFills]
SegImages == [shape : HostShapes \cup PlanarShapes, fill : ImageFills]
NoImage == [shape |-> None, fill |-> 0]

Prompts == {"cat"}
OptionalNames == {"blur", "threshold", "dilation_factor"}
Blurs == {b \in {0, 10, DefaultBlur} : b <= BlurMax}
Thresholds == {t \in {DefaultThreshold, 500, Scale} : t % ThresholdStep = 0}
Dilations == {d \in {0, DefaultDilation} : d <= DilationMax}

\* Raw outputs of the pretrained model: logits on a 2x2 and on a 1x3 grid.
Logits == {0 - 200, 0, 1}
FlatTensors == [1..2 -> [1..2 -> Logits]] \cup [1..1 -> [1..3 -> Logits]]

\* MASK tensors given to combine_masks, all of one shape.
MaskVals == {0, Scale}
MaskTensors == [1..1 -> [1..2 -> MaskVals]]

\* --------------------------------------------------------- tensor helpers
RECURSIVE SumTo(_, _)
SumTo(f, n) == IF n = 0 THEN 0 ELSE f[n] + SumTo(f, n - 1)

Elems(t) == { t[i][j] : i \in 1..Len(t), j \in 1..Len(t[1]) }
SetMin(S) == CHOOSE x \in S : \A y \in S : x <= y
SetMax(S) == CHOOSE x \in S : \A y \in S : x >= y
Transpose(t) == [j \in 1..Len(t[1]) |-> [i \in 1..Len(t) |-> t[i][j]]]
Abs(k) == IF k < 0 THEN 0 - k ELSE k

\* torch.sigmoid on the logits of the model, in thousandths; float32
\* saturates to exactly 0 at -200.
SigmoidOf(x) ==
    CASE x = 0 - 200 -> 0
      [] x = 0 -> 500
      [] x = 1 -> 731
Sigmoid(t) == [i \in 1..Len(t) |-> [j \in 1..Len(t[1]) |-> SigmoidOf(t[i][j])]]

\* torch.where(tensor > threshold, tensor, 0)
ThresholdWhere_GE(t, thr) ==
    [i \in 1..Len(t) |-> [j \in 1..Len(t[1]) |->
        IF t[i][j] >= thr THEN t[i][j] ELSE 0]]
ThresholdWhere(t, thr) ==
    [i \in 1..Len(t) |-> [j \in 1..Len(t[1]) |->
        IF t[i][j] > thr THEN t[i][j] ELSE 0]]

\* scipy.ndimage.gaussian_filter(sigma = blur), truncate = 4, mode "reflect".
\* Half kernels exp(-x^2 / (2 sigma^2)), x = 0..int(4 sigma + 0.5), normalised
\* to parts per million; blur is in tenths (the step of the input).
GaussWeights(b) ==
    CASE b = 10 -> <<398943, 241971, 53991, 4432, 134>>
      [] b = 70 -> <<56994, 56416, 54715, 51993, 48409, 44161, 39473, 34569,
                     29663, 24939, 20543, 16581, 13112, 10160, 7713, 5738,
                     4182, 2986, 2089, 1432, 962, 633, 408, 258, 160, 97,
                     58, 34, 19>>
      [] OTHER -> <<1>>
KernelSum(w) == 2 * SumTo(w, Len(w)) - w[1]
Reflect(j, n) == LET m == j % (2 * n) IN IF m < n THEN m ELSE 2 * n - 1 - m
Filter1D(x, w) ==
    LET n == Len(x)
        r == Len(w) - 1
        shifted(i) == [k \in 1..(2 * r + 1) |->
                    w[Abs(k - r - 1) + 1] * x[Reflect(i - 1 + k - r - 1, n) + 1]]
    IN [i \in 1..n |-> SumTo(shifted(i), 2 * r + 1) \div KernelSum(w)]
FilterRows(t, w) == [i \in 1..Len(t) |-> Filter1D(t[i], w)]
GaussianFilter(t, b) ==
    IF b = 0 THEN t
    ELSE LET w == GaussWeights(b)
         IN FilterRows(Transpose(FilterRows(Transpose(t), w)), w)

\* (x - x.min()) / (x.max() - x.min()); 0 / 0 is nan in torch.
Normalize(t) ==
    LET mn == SetMin(Elems(t))
        mx == SetMax(Elems(t))
    IN [i \in 1..Len(t) |-> [j \in 1..Len(t[1]) |->
          IF mx = mn THEN NaN ELSE ((t[i][j] - mn) * Scale) \div (mx - mn)]]

\* to_pil_image(image, mode="RGB") accepts a 2- or 3-dimensional tensor with
\* at most 4 channels in front, and "RGB" only for 3 channels.
PlanarOf(shape) == IF Len(shape) = 2 THEN <<1>> \o shape ELSE shape
ToPilAccepts(shape) ==
    /\ Len(shape) \in {2, 3}
    /\ PlanarOf(shape)[1] <= 4
    /\ PlanarOf(shape)[1] = 3
to_pil_image(img) ==
    [size |-> <<PlanarOf(img.shape)[3], PlanarOf(img.shape)[2]>>, mode |-> "RGB"]
NoPil == [size |-> None, mode |-> ""]

\* tensor.numpy().squeeze(), then (array * 255).astype(np.uint8)
Squeeze(shape) == SelectSeq(shape, LAMBDA d : d # 1)
tensor_to_numpy(img) ==
    [shape |-> Squeeze(img.shape), fill |-> ((img.fill * 255) \div Scale) % 256]

\* colormap(mask.numpy())[:, :, :3]: the colormap appends an RGBA axis, the
\* slice keeps the first three entries of the third axis.
apply_colormap(mask) ==
    LET rgba == <<Len(mask), Len(mask[1]), 4>>
    IN [k \in 1..3 |-> IF k = 3 /\ rgba[k] > 3 THEN 3 ELSE rgba[k]]

\* cv2.resize(image, (width, height)) of an H x W x C array
resize_image(shape, dims) == <<dims[2], dims[1], shape[3]>>

\* cv2.addWeighted needs two arrays of one size and channel count
OverlayAccepts(bg, fg) == bg = fg

\* mask_1 + mask_2 (+ mask_3)
AddTensors(a, b) == [i \in 1..Len(a) |-> [j \in 1..Len(a[1]) |-> a[i][j] + b[i][j]]]
SumMasks(m1, m2, m3) ==
    IF m3 # None THEN AddTensors(AddTensors(m1, m2), m3) ELSE AddTensors(m1, m2)

\* ------------------------------------------------------------------ state
VARIABLES
    dtype, device,
    op, pc, exc, steps, supplied,
    image, prompt, blur, threshold, dilation_factor,
    pil_image, flat, tensor, tensor_thresholded, tensor_smoothed, mask_normalized,
    input_image, mask_1, mask_2, mask_3,
    combined_mask, image_np, heatmap, binary_mask, dimensions,
    heatmap_resized, binary_mask_resized, overlay_heatmap, overlay_binary

fields == <<dtype, device>>
segArgs == <<image, prompt, blur, threshold, dilation_factor>>
segLocals == <<pil_image, flat, tensor, tensor_thresholded, tensor_smoothed,
               mask_normalized>>
combArgs == <<input_image, mask_1, mask_2, mask_3>>
combLocals == <<combined_mask, image_np, heatmap, binary_mask, dimensions,
                heatmap_resized, binary_mask_resized, overlay_heatmap,
                overlay_binary>>
vars == <<fields, op, pc, exc, steps, supplied, segArgs, segLocals, combArgs,
          combLocals>>

NoSegArgs ==
    /\ image' = NoImage /\ prompt' = "" /\ blur' = Unset
    /\ threshold' = Unset /\ dilation_factor' = Unset
NoSegLocals ==
    /\ pil_image' = NoPil /\ flat' = None /\ tensor' = None
    /\ tensor_thresholded' = None /\ tensor_smoothed' = None
    /\ mask_normalized' = None
NoCombArgs ==
    /\ input_image' = NoImage /\ mask_1' = None /\ mask_2' = None /\ mask_3' = None
NoCombLocals ==
    /\ combined_mask' = None /\ image_np' = NoImage /\ heatmap' = None
    /\ binary_mask' = None /\ dimensions' = None /\ heatmap_resized' = None
    /\ binary_mask_resized' = None /\ overlay_heatmap' = None
    /\ overlay_binary' = None

\* CLIPSeg.__init__ sets dtype and device from the host; CombineMasks.__init__
\* sets nothing.
Init ==
    /\ dtype \in {"float16", "float32"}
    /\ device \in {"cpu", "cuda"}
    /\ op = "none" /\ pc = "idle" /\ exc = "none" /\ steps = <<>>
    /\ supplied = {}
    /\ image = NoImage /\ prompt = "" /\ blur = Unset
    /\ threshold = Unset /\ dilation_factor = Unset
    /\ pil_image = NoPil /\ flat = None /\ tensor = None
    /\ tensor_thresholded = None /\ tensor_smoothed = None
    /\ mask_normalized = None
    /\ input_image = NoImage /\ mask_1 = None /\ mask_2 = None /\ mask_3 = None
    /\ combined_mask = None /\ image_np = NoImage /\ heatmap = None
    /\ binary_mask = None /\ dimensions = None /\ heatmap_resized = None
    /\ binary_mask_resized = None /\ overlay_heatmap = None
    /\ overlay_binary = None

\* The host calls a node's FUNCTION when no invocation is running.
Callable == pc = "idle"

Raise(e) == pc' = "raised" /\ exc' = e

\* ------------------------------------------------- CLIPSeg.segment_image
\* The host passes the inputs it has as keyword arguments.  segment_image
\* declares blur, threshold and dilation_factor without defaults: a call
\* that leaves one out fails to bind.
SegCallMissing ==
    /\ Callable
    /\ \E img \in SegImages, p \in Prompts, S \in (SUBSET OptionalNames) \ {OptionalNames},
          b \in Blurs, t \in Thresholds, d \in Dilations :
          /\ supplied' = S
          /\ image' = img /\ prompt' = p
          /\ blur' = IF "blur" \in S THEN b ELSE Unset
          /\ threshold' = IF "threshold" \in S THEN t ELSE Unset
          /\ dilation_factor' = IF "dilation_factor" \in S THEN d ELSE Unset
    /\ op' = "segment" /\ steps' = <<>>
    /\ Raise("TypeError")
    /\ NoSegLocals /\ NoCombArgs /\ NoCombLocals
    /\ UNCHANGED fields

SegCall ==
    /\ Callable
    /\ \E img \in SegImages, p \in Prompts, b \in Blurs, t \in Thresholds,
          d \in Dilations :
          /\ image' = img /\ prompt' = p
          /\ blur' = b /\ threshold' = t /\ dilation_factor' = d
    /\ supplied' = OptionalNames
    /\ op' = "segment" /\ steps' = <<>> /\ exc' = "none"
    /\ pc' = "to_pil"
    /\ NoSegLocals /\ NoCombArgs /\ NoCombLocals
    /\ UNCHANGED fields

\* pil_image = to_pil_image(image, mode="RGB")
SegToPil ==
    /\ op = "segment" /\ pc = "to_pil"
    /\ IF ToPilAccepts(image.shape)
       THEN /\ pil_image' = to_pil_image(image)
            /\ pc' = "do_clipseg"
            /\ UNCHANGED exc
       ELSE /\ Raise("ValueError")
            /\ UNCHANGED pil_image
    /\ UNCHANGED <<fields, op, steps, supplied, segArgs, combArgs, combLocals,
                   flat, tensor, tensor_thresholded, tensor_smoothed,
                   mask_normalized>>

\* flat = self.do_clipseg(prompt, [pil_image]): the model is moved to
\* self.device, the processor's inputs stay on the cpu.
DoClipseg ==
    /\ op = "segment" /\ pc = "do_clipseg"
    /\ IF device = "cpu"
       THEN /\ \E preds \in FlatTensors : flat' = preds
            /\ pc' = "sigmoid"
            /\ UNCHANGED exc
       ELSE /\ Raise("RuntimeError")
            /\ UNCHANGED flat
    /\ UNCHANGED <<fields, op, steps, supplied, segArgs, combArgs, combLocals,
                   pil_image, tensor, tensor_thresholded, tensor_smoothed,
                   mask_normalized>>

\* get_mask_dilated: tensor = torch.sigmoid(flat)
MaskSigmoid ==
    /\ op = "segment" /\ pc = "sigmoid"
    /\ tensor' = Sigmoid(flat)
    /\ pc' = "threshold"
    /\ UNCHANGED <<fields, op, exc, steps, supplied, segArgs, combArgs,
                   combLocals, pil_image, flat, tensor_thresholded,
                   tensor_smoothed, mask_normalized>>

\* tensor_thresholded = torch.where(tensor > threshold, tensor, 0)
MaskThreshold ==
    /\ op = "segment" /\ pc = "threshold"
    /\ tensor_thresholded' = ThresholdWhere(tensor, threshold)
    /\ steps' = Append(steps, "threshold")
    /\ pc' = "blur"
    /\ UNCHANGED <<fields, op, exc, supplied, segArgs, combArgs, combLocals,
                   pil_image, flat, tensor, tensor_smoothed, mask_normalized>>

\* tensor_smoothed = gaussian_filter(tensor_thresholded, sigma=blur)
MaskBlur ==
    /\ op = "segment" /\ pc = "blur"
    /\ tensor_smoothed' = GaussianFilter(tensor_thresholded, blur)
    /\ steps' = Append(steps, "blur")
    /\ pc' = "normalize"
    /\ UNCHANGED <<fields, op, exc, supplied, segArgs, combArgs, combLocals,
                   pil_image, flat, tensor, tensor_thresholded, mask_normalized>>

\* mask_normalized = (s - s.min()) / (s.max() - s.min())
MaskNormalize ==
    /\ op = "segment" /\ pc = "normalize"
    /\ mask_normalized' = Normalize(tensor_smoothed)
    /\ steps' = Append(steps, "normalize")
    /\ pc' = "dilate"
    /\ UNCHANGED <<fields, op, exc, supplied, segArgs, combArgs, combLocals,
                   pil_image, flat, tensor, tensor_thresholded, tensor_smoothed>>

\* return dilate_mask(mask_normalized, dilation_factor): dilate_mask takes
\* (mask, dilation_factor, dtype), so the call does not bind and nothing of
\* segment_image after get_mask_dilated runs.
MaskDilate ==
    /\ op = "segment" /\ pc = "dilate"
    /\ Raise("TypeError")
    /\ UNCHANGED <<fields, op, steps, supplied, segArgs, segLocals, combArgs,
                   combLocals>>

\* ---------------------------------------------- CombineMasks.combine_masks
CombCall ==
    /\ Callable
    /\ \E img \in HostImages, m1 \in MaskTensors, m2 \in MaskTensors,
          m3 \in MaskTensors \cup {None} :
          /\ input_image' = img
          /\ mask_1' = m1 /\ mask_2' = m2 /\ mask_3' = m3
    /\ op' = "combine" /\ steps' = <<>> /\ exc' = "none" /\ supplied' = {}
    /\ pc' = "sum"
    /\ NoSegArgs /\ NoSegLocals /\ NoCombLocals
    /\ UNCHANGED fields

\* combined_mask = mask_1 + mask_2 + mask_3 if mask_3 is not None
\*                 else mask_1 + mask_2
CombSum_InPlace ==
    /\ op = "combine" /\ pc = "sum"
    /\ combined_mask' = SumMasks(mask_1, mask_2, mask_3)
    /\ mask_1' = SumMasks(mask_1, mask_2, mask_3)
    /\ pc' = "to_numpy"
    /\ UNCHANGED <<fields, op, exc, steps, supplied, segArgs, segLocals,
                   input_image, mask_2, mask_3,
                   image_np, heatmap, binary_mask, dimensions, heatmap_resized,
                   binary_mask_resized, overlay_heatmap, overlay_binary>>
CombSum ==
    /\ op = "combine" /\ pc = "sum"
    /\ combined_mask' = SumMasks(mask_1, mask_2, mask_3)
    /\ pc' = "to_numpy"
    /\ UNCHANGED <<fields, op, exc, steps, supplied, segArgs, segLocals, combArgs,
                   image_np, heatmap, binary_mask, dimensions, heatmap_resized,
                   binary_mask_resized, overlay_heatmap, overlay_binary>>

\* image_np = tensor_to_numpy(input_image)
CombToNumpy ==
    /\ op = "combine" /\ pc = "to_numpy"
    /\ image_np' = tensor_to_numpy(input_image)
    /\ pc' = "colorize"
    /\ UNCHANGED <<fields, op, exc, steps, supplied, segArgs, segLocals, combArgs,
                   combined_mask, heatmap, binary_mask, dimensions,
                   heatmap_resized, binary_mask_resized, overlay_heatmap,
                   overlay_binary>>

\* heatmap = apply_colormap(combined_mask, cm.viridis)
\* binary_mask = apply_colormap(combined_mask, cm.Greys_r)
CombColorize ==
    /\ op = "combine" /\ pc = "colorize"
    /\ heatmap' = apply_colormap(combined_mask)
    /\ binary_mask' = apply_colormap(combined_mask)
    /\ steps' = Append(steps, "colorize")
    /\ pc' = "resize"
    /\ UNCHANGED <<fields, op, exc, supplied, segArgs, segLocals, combArgs,
                   combined_mask, image_np, dimensions, heatmap_resized,
                   binary_mask_resized, overlay_heatmap, overlay_binary>>

\* dimensions = (image_np.shape[1], image_np.shape[0])
\* heatmap_resized = resize_image(heatmap, dimensions)
\* binary_mask_resized = resize_image(binary_mask, dimensions)
CombResize ==
    /\ op = "combine" /\ pc = "resize"
    /\ dimensions' = <<image_np.shape[2], image_np.shape[1]>>
    /\ heatmap_resized' = resize_image(heatmap, dimensions')
    /\ binary_mask_resized' = resize_image(binary_mask, dimensions')
    /\ steps' = Append(steps, "resize")
    /\ pc' = "overlay"
    /\ UNCHANGED <<fields, op, exc, supplied, segArgs, segLocals, combArgs,
                   combined_mask, image_np, heatmap, binary_mask,
                   overlay_heatmap, overlay_binary>>

\* overlay_heatmap = overlay_image(image_np, heatmap_resized, 0.5)
\* overlay_binary = overlay_image(image_np, binary_mask_resized, 1)
CombOverlay ==
    /\ op = "combine" /\ pc = "overlay"
    /\ IF OverlayAccepts(image_np.shape, heatmap_resized)
       THEN /\ overlay_heatmap' = heatmap_resized
            /\ overlay_binary' = binary_mask_resized
            /\ steps' = Append(steps, "composite")
            /\ pc' = "to_tensor"
            /\ UNCHANGED exc
       ELSE /\ Raise("cv2.error")
            /\ UNCHANGED <<overlay_heatmap, overlay_binary, steps>>
    /\ UNCHANGED <<fields, op, supplied, segArgs, segLocals, combArgs,
                   combined_mask, image_np, heatmap, binary_mask, dimensions,
                   heatmap_resized, binary_mask_resized>>

\* image_out_heatmap = numpy_to_tensor(overlay_heatmap): numpy_to_tensor takes
\* (array, dtype), so the call does not bind and combine_masks never returns.
CombToTensor ==
    /\ op = "combine" /\ pc = "to_tensor"
    /\ Raise("TypeError")
    /\ UNCHANGED <<fields, op, steps, supplied, segArgs, segLocals, combArgs,
                   combLocals>>

\* An exception leaves the FUNCTION: its arguments and locals go out of
\* scope, the node object stays.
Unwind ==
    /\ pc = "raised"
    /\ pc' = "idle" /\ op' = "none" /\ exc' = "none" /\ steps' = <<>>
    /\ supplied' = {}
    /\ NoSegArgs /\ NoSegLocals /\ NoCombArgs /\ NoCombLocals
    /\ UNCHANGED fields

Next ==
    \/ Unwind
    \/ SegCallMissing
    \/ SegCall
    \/ SegToPil
    \/ DoClipseg
    \/ MaskSigmoid
    \/ MaskThreshold
    \/ MaskBlur
    \/ MaskNormalize
    \/ MaskDilate
    \/ CombCall
    \/ CombSum
    \/ CombToNumpy
    \/ CombColorize
    \/ CombResize
    \/ CombOverlay
    \/ CombToTensor

Spec == Init /\ [][Next]_vars

\* ----------------------------------------------------------------- claims
Pipeline == <<"threshold", "blur", "normalize", "dilate", "colorize", "resize",
              "composite">>
IsPrefix(a, b) == Len(a) <= Len(b) /\ \A k \in 1..Len(a) : a[k] = b[k]

\* C1: every invocation of segment_image with an image, a prompt and blur,
\* threshold and dilation_factor inside their ranges runs to the end and
\* returns (mask, heatmap, BW image); no invocation ends in an exception.
C1_SegmentReturns ==
    (op = "segment" /\ supplied = OptionalNames) => (pc # "raised" /\ exc = "none")

\* C2: combine_masks returns three values, the first being mask_1 + mask_2 +
\* mask_3 when mask_3 is given and mask_1 + mask_2 when it is None.
C2_CombineReturnsSum ==
    op = "combine" =>
        /\ pc # "raised" /\ exc = "none"
        /\ combined_mask # None =>
              combined_mask = IF mask_3 # None
                              THEN AddTensors(AddTensors(mask_1, mask_2), mask_3)
                              ELSE AddTensors(mask_1, mask_2)

\* C3: one invocation of segment_image executes threshold, Gaussian blur,
\* normalize, dilate, colorize, resize, alpha-composite in this order, each
\* after the previous one, none skipped, reordered or retried: the steps
\* taken are always a prefix of the pipeline, and all of it when the
\* invocation has ended.
C3_FixedPipeline ==
    (op = "segment" /\ supplied = OptionalNames) =>
        /\ IsPrefix(steps, Pipeline)
        /\ pc = "raised" => steps = Pipeline

\* C4: no call shares mutable state with another: no step of segment_image,
\* do_clipseg, get_mask_dilated or combine_masks changes the node's dtype or
\* device, and while an invocation runs the caller's image and mask tensors
\* keep their values.
C4_NoSharedState ==
    [][ /\ dtype' = dtype /\ device' = device
        /\ (pc # "idle" /\ pc' # "idle") =>
              /\ image' = image /\ input_image' = input_image
              /\ mask_1' = mask_1 /\ mask_2' = mask_2 /\ mask_3' = mask_3 ]_vars

\* A combine_masks invocation with three masks has run to its last statement,
\* with a sum that differs from mask_1.
C4_Witness ==
    /\ op = "combine" /\ pc = "raised" /\ exc = "TypeError"
    /\ mask_3 # None /\ overlay_binary # None
    /\ combined_mask # mask_1
    /\ dtype = "float16" /\ device = "cuda"

\* C5: an invocation of segment_image that supplies only image and prompt is
\* accepted and proceeds with blur = 7, threshold = 0.4, dilation_factor = 4.
C5_DefaultsApplied ==
    (op = "segment" /\ supplied = {}) =>
        /\ pc # "raised" /\ exc = "none"
        /\ blur = DefaultBlur /\ threshold = DefaultThreshold
        /\ dilation_factor = DefaultDilation

\* C6: every element of the normalized mask is a defined number in [0, 1],
\* with minimum 0 and maximum 1, also when the smoothed tensor is constant.
C6_NormalizedInUnitRange ==
    mask_normalized # None =>
        /\ \A e \in Elems(mask_normalized) : e # NaN /\ 0 <= e /\ e <= Scale
        /\ SetMin(Elems(mask_normalized)) = 0
        /\ SetMax(Elems(mask_normalized)) = Scale

\* C7: the threshold step sets every element whose sigmoid value is not
\* strictly greater than threshold to 0 and leaves every other element at its
\* sigmoid value; the shape is kept.
C7_ThresholdCutsOff ==
    tensor_thresholded # None =>
        /\ Len(tensor_thresholded) = Len(tensor)
        /\ \A i \in 1..Len(tensor) :
              /\ Len(tensor_thresholded[i]) = Len(tensor[i])
              /\ \A j \in 1..Len(tensor[i]) :
                    /\ tensor[i][j] <= threshold => tensor_thresholded[i][j] = 0
                    /\ tensor[i][j] > threshold =>
                          tensor_thresholded[i][j] = tensor[i][j]

\* The threshold step has run on a tensor with one element exactly at the
\* threshold (cut to 0) and one above it (kept).
C7_Witness ==
    /\ tensor_thresholded # None
    /\ \E i \in 1..Len(tensor), j \in 1..Len(tensor[1]) :
          /\ tensor[i][j] = threshold /\ tensor[i][j] > 0
          /\ tensor_thresholded[i][j] = 0
    /\ \E i \in 1..Len(tensor), j \in 1..Len(tensor[1]) :
          /\ tensor[i][j] > threshold
          /\ tensor_thresholded[i][j] = tensor[i][j]

\* C8: the colorized mask is resized to (image width, image height) before it
\* is composited, so overlay never combines two arrays of different sizes and
\* the outputs have the height and width of the input image.
C8_OverlaySizesAgree ==
    (op = "combine" /\ heatmap_resized # None) =>
        /\ heatmap_resized = image_np.shape
        /\ binary_mask_resized = image_np.shape
        /\ heatmap_resized[1] = input_image.shape[2]
        /\ heatmap_resized[2] = input_image.shape[3]

====
